---- MODULE Spec2Model ----
(***************************************************************************)
(* Token lifecycle of the OSDU record viewer: the TokenManager class       *)
(* (src/token_manager.py) and the places of src/app.py that construct and  *)
(* consult it.  Every call of the manager is one atomic action (the code   *)
(* is synchronous and time.time() is taken as constant within one call);   *)
(* the identity provider, the file system and the clock are the            *)
(* environment and supply the inputs of the actions.                       *)
(***************************************************************************)
EXTENDS Integers, Sequences, FiniteSets, TLC

(***************************************************************************)
(* Program constants.                                                      *)
(***************************************************************************)
SafetyMargin == 300
DefaultExpiresIn == 3600

(***************************************************************************)
(* Bounds of the model.  The clock advances in ticks of TickStep seconds   *)
(* up to MaxTime; three ticks are 3300 = DefaultExpiresIn - SafetyMargin,  *)
(* the first moment at which a token of default lifetime issued at 0 is no *)
(* longer usable.                                                          *)
(***************************************************************************)
TickStep == 1100
MaxTime == 3300

(***************************************************************************)
(* Python values.  None is Python's None (also JSON null and the result of *)
(* dict.get on a missing key); "" is the empty string.  NonNumeric stands  *)
(* for any value on which `x - 300` raises TypeError (a string, null, a    *)
(* list); MissingKey for a key that is absent from a JSON object.          *)
(***************************************************************************)
None == "None"
PyTrue == "True"
PyFalse == "False"
NonNumeric == 0 - 1
MissingKey == 0 - 2
Missing == "<missing>"

AccessTokens == {"tA", "tB"}
TokenValues == AccessTokens \cup {None, ""}
Truthy(v) == v \notin {None, "", PyFalse}

PyBool(b) == IF b THEN PyTrue ELSE PyFalse

(***************************************************************************)
(* The token cache file.  kind "absent": os.path.exists is false;          *)
(* "corrupt": open() or json.load() raises (unreadable, empty, truncated,  *)
(* not JSON); "nonobject": well-formed JSON that is not an object (a list, *)
(* a number), so that .get raises AttributeError; "object": a JSON object  *)
(* whose access_token and expiry entries are the given values.             *)
(***************************************************************************)
File(k, t, e, c) == [kind |-> k, access_token |-> t, expiry |-> e, cached_at |-> c]
NoFile == File("absent", None, 0, 0)
CorruptFile == File("corrupt", None, 0, 0)
NonObjectFile == File("nonobject", None, 0, 0)

InitExpiries == {MissingKey, NonNumeric, 300, 3600}
InitTokens == {None, "", "tA"}
InitFiles ==
    {NoFile, CorruptFile, NonObjectFile}
        \cup {File("object", t, e, 0) : t \in InitTokens, e \in InitExpiries}

(***************************************************************************)
(* Credential configuration: which of the three required settings are      *)
(* present (config.get returns None for the others).                       *)
(***************************************************************************)
Config(e, i, s) == [token_endpoint |-> e, client_id |-> i, client_secret |-> s]
Configs ==
    {Config(TRUE, TRUE, TRUE), Config(FALSE, TRUE, TRUE),
     Config(TRUE, FALSE, TRUE), Config(TRUE, TRUE, FALSE)}
RefreshTokens == {"", "rA"}

VARIABLES
    now,            \* time.time(), seconds
    config,         \* the credential configuration the process was given
    token_manager,  \* "initialized" or "none": whether a TokenManager exists
    refresh_token,  \* TokenManager.refresh_token
    cached_token,   \* TokenManager._cached_token
    token_expiry,   \* TokenManager._token_expiry
    cache_file,     \* content of TokenManager._cache_file
    last            \* observation of the last call: what it returned and did

vars == <<now, config, token_manager, refresh_token, cached_token,
          token_expiry, cache_file, last>>

(***************************************************************************)
(* Responses of the identity provider to a grant request.  status "200",   *)
(* "non200", or "exception" (requests.post or response.json() raises).     *)
(* For a 200 response the JSON body's access_token (None when absent),     *)
(* expires_in (MissingKey when absent, NonNumeric when int() raises on it) *)
(* and refresh_token (Missing when absent); otherwise the response text.   *)
(***************************************************************************)
Response(st, t, e, r, x) ==
    [status |-> st, access_token |-> t, expires_in |-> e, refresh_token |-> r, text |-> x]
NoResponse == Response("none", None, MissingKey, Missing, "")
ExpiresIns == {300, 1400, MissingKey}
ErrorTexts == {"e1", "e2"}
RotatedTokens == {Missing, "rB"}
FailedResponses ==
    {Response("non200", None, MissingKey, Missing, x) : x \in ErrorTexts}
        \cup {Response("exception", None, MissingKey, Missing, "e1")}
        \cup {Response("200", "tA", NonNumeric, Missing, "")}
RefreshResponses ==
    {Response("200", t, e, r, "") : t \in AccessTokens, e \in ExpiresIns, r \in RotatedTokens}
        \cup {Response("200", None, MissingKey, r, "") : r \in RotatedTokens}
        \cup FailedResponses
ClientCredentialsResponses ==
    {Response("200", t, e, Missing, "") : t \in AccessTokens, e \in ExpiresIns}
        \cup {Response("200", None, MissingKey, Missing, "")}
        \cup FailedResponses

(***************************************************************************)
(* Outcomes of the file system: of open(...,'w') + json.dump ("ok";        *)
(* "denied": open raises, file untouched; "truncated": the file was opened *)
(* and emptied and the write then failed) and of os.remove.                *)
(***************************************************************************)
WriteOutcomes == {"ok", "denied", "truncated"}
DeleteOutcomes == {"ok", "failed"}

(***************************************************************************)
(* Exceptions, as <<message, detail>>.                                     *)
(***************************************************************************)
NoError == <<"", "">>
TypeError == <<"TypeError", "">>
MissingConfiguration == <<"Missing required token configuration", "">>
NoAccessToken == <<"No access token in response", "">>
RefreshFailed(x) == <<"Refresh token request failed: ", x>>
ClientCredentialsFailed(x) == <<"Client credentials failed: ", x>>
RequestException(x) == <<"requests.RequestException", x>>
NotInitialized == <<"TokenManager not initialized", "">>
AuthenticationFailed(e) == <<"Authentication failed: ", e[1] \o e[2]>>

(***************************************************************************)
(* The state of one TokenManager during a call, with the trace of what the *)
(* call did: the grant requests it sent (with the responses), how often it *)
(* read the cache file, and the outcomes of its writes and removals.       *)
(***************************************************************************)
CallState ==
    [cached_token |-> cached_token, token_expiry |-> token_expiry,
     refresh_token |-> refresh_token, cache_file |-> cache_file,
     requests |-> <<>>, reads |-> 0, writes |-> <<>>, deletes |-> <<>>]

Ret(v, s) == [raised |-> FALSE, val |-> v, err |-> NoError, s |-> s]
Raise(e, s) == [raised |-> TRUE, val |-> None, err |-> e, s |-> s]

\* time.time() < expiry - 300
Unexpired(expiry, t) == t < expiry - SafetyMargin

\* load_from_cache that adopts the token but not its expiry
load_from_cache_keepsExpiry(s) ==
    LET f == s.cache_file
        s1 == [s EXCEPT !.reads = @ + 1]
    IN  IF f.kind = "object"
        THEN [ok |-> TRUE, s |-> [s1 EXCEPT !.cached_token = f.access_token]]
        ELSE [ok |-> FALSE, s |-> s1]

load_from_cache(s) ==
    LET f == s.cache_file
        s1 == [s EXCEPT !.reads = @ + 1]
    IN  IF f.kind = "object"
        THEN [ok |-> TRUE,
              s |-> [s1 EXCEPT !.cached_token = f.access_token,
                               !.token_expiry = IF f.expiry = MissingKey THEN 0 ELSE f.expiry]]
        ELSE [ok |-> FALSE, s |-> s1]

save_to_cache(s, token, expiry, t, w) ==
    LET s1 == [s EXCEPT !.writes = Append(@, w)]
    IN  CASE w = "ok" -> [s1 EXCEPT !.cache_file = File("object", token, expiry, t)]
          [] w = "truncated" -> [s1 EXCEPT !.cache_file = CorruptFile]
          [] OTHER -> s1

\* process_token_response in which a failed write of the cache file is fatal
process_token_response_writeFatal(s, token_data, t, w) ==
    IF ~Truthy(token_data.access_token) THEN Raise(NoAccessToken, s)
    ELSE IF token_data.expires_in = NonNumeric THEN Raise(TypeError, s)
    ELSE
        LET expires_in == IF token_data.expires_in = MissingKey
                          THEN DefaultExpiresIn ELSE token_data.expires_in
            s1 == [s EXCEPT !.token_expiry = t + expires_in,
                            !.cached_token = token_data.access_token]
            s2 == save_to_cache(s1, token_data.access_token, s1.token_expiry, t, w)
        IN  IF w = "ok" THEN Ret(token_data.access_token, s2)
            ELSE Raise(<<"OSError", "">>, s2)

process_token_response(s, token_data, t, w) ==
    IF ~Truthy(token_data.access_token) THEN Raise(NoAccessToken, s)
    ELSE IF token_data.expires_in = NonNumeric THEN Raise(TypeError, s)
    ELSE
        LET expires_in == IF token_data.expires_in = MissingKey
                          THEN DefaultExpiresIn ELSE token_data.expires_in
            s1 == [s EXCEPT !.token_expiry = t + expires_in,
                            !.cached_token = token_data.access_token]
        IN  Ret(token_data.access_token,
                save_to_cache(s1, token_data.access_token, s1.token_expiry, t, w))

request_with_refresh_token(s, response, t, w) ==
    LET s1 == [s EXCEPT !.requests = Append(@, <<"refresh_token", response>>)]
    IN  IF response.status = "exception" THEN Raise(RequestException(response.text), s1)
        ELSE IF response.status # "200" THEN Raise(RefreshFailed(response.text), s1)
        ELSE
            LET s2 == IF response.refresh_token # Missing
                      THEN [s1 EXCEPT !.refresh_token = response.refresh_token]
                      ELSE s1
            IN  process_token_response(s2, response, t, w)

request_with_client_credentials(s, response, t, w) ==
    LET s1 == [s EXCEPT !.requests = Append(@, <<"client_credentials", response>>)]
    IN  IF response.status = "exception" THEN Raise(RequestException(response.text), s1)
        ELSE IF response.status # "200" THEN Raise(ClientCredentialsFailed(response.text), s1)
        ELSE process_token_response(s1, response, t, w)

ConfigComplete(cfg) == cfg.token_endpoint /\ cfg.client_id /\ cfg.client_secret

\* request_new_token that lets a failure of the refresh grant propagate
request_new_token_noFallback(s, cfg, rresp, cresp, t, w) ==
    IF ~ConfigComplete(cfg) THEN Raise(MissingConfiguration, s)
    ELSE IF Truthy(s.refresh_token)
    THEN request_with_refresh_token(s, rresp, t, w)
    ELSE request_with_client_credentials(s, cresp, t, w)

request_new_token(s, cfg, rresp, cresp, t, w) ==
    IF ~ConfigComplete(cfg) THEN Raise(MissingConfiguration, s)
    ELSE IF Truthy(s.refresh_token)
    THEN
        LET r == request_with_refresh_token(s, rresp, t, w)
        IN  IF ~r.raised THEN r
            ELSE request_with_client_credentials(r.s, cresp, t, w)
    ELSE request_with_client_credentials(s, cresp, t, w)

\* get_token without the memory check: every call consults the cache file
get_token_noMemoryCheck(s, cfg, rresp, cresp, t, w) ==
    LET l == load_from_cache(s)
    IN  IF l.ok /\ l.s.token_expiry = NonNumeric THEN Raise(TypeError, l.s)
        ELSE IF l.ok /\ Unexpired(l.s.token_expiry, t) THEN Ret(l.s.cached_token, l.s)
        ELSE request_new_token(l.s, cfg, rresp, cresp, t, w)

get_token(s, cfg, rresp, cresp, t, w) ==
    IF Truthy(s.cached_token) /\ s.token_expiry = NonNumeric THEN Raise(TypeError, s)
    ELSE IF Truthy(s.cached_token) /\ Unexpired(s.token_expiry, t) THEN Ret(s.cached_token, s)
    ELSE
        LET l == load_from_cache(s)
        IN  IF l.ok /\ l.s.token_expiry = NonNumeric THEN Raise(TypeError, l.s)
            ELSE IF l.ok /\ Unexpired(l.s.token_expiry, t) THEN Ret(l.s.cached_token, l.s)
            ELSE request_new_token(l.s, cfg, rresp, cresp, t, w)

\* clear_cache that wipes the memory only and leaves the file
clear_cache_memoryOnly(s, d) ==
    Ret(None, [s EXCEPT !.cached_token = None, !.token_expiry = 0])

clear_cache(s, d) ==
    LET s1 == [s EXCEPT !.cached_token = None, !.token_expiry = 0]
    IN  IF s1.cache_file.kind = "absent" THEN Ret(None, s1)
        ELSE IF d = "ok"
        THEN Ret(None, [s1 EXCEPT !.deletes = Append(@, d), !.cache_file = NoFile])
        ELSE Ret(None, [s1 EXCEPT !.deletes = Append(@, d)])

is_token_valid(s, t) ==
    IF ~Truthy(s.cached_token) THEN Ret(s.cached_token, s)
    ELSE IF s.token_expiry = NonNumeric THEN Raise(TypeError, s)
    ELSE Ret(PyBool(Unexpired(s.token_expiry, t)), s)

\* Config.validate of app.py, restricted to the three token settings
validate(cfg) == ConfigComplete(cfg)

(***************************************************************************)
(* Observation of a call: the operation, whether it raised, the value it   *)
(* returned or the exception, what it did, and the manager's state when it *)
(* was called.                                                             *)
(***************************************************************************)
Pre ==
    [cached_token |-> cached_token, token_expiry |-> token_expiry,
     refresh_token |-> refresh_token, cache_file |-> cache_file]

Obs(op, r, status) ==
    [op |-> op, raised |-> r.raised, ret |-> r.val, err |-> r.err, status |-> status,
     requests |-> r.s.requests, reads |-> r.s.reads, writes |-> r.s.writes,
     deletes |-> r.s.deletes, pre |-> Pre]

\* no call has been made or the caller has taken the result of the last one
Idle ==
    [op |-> "idle", raised |-> FALSE, ret |-> None, err |-> NoError, status |-> "",
     requests |-> <<>>, reads |-> 0, writes |-> <<>>, deletes |-> <<>>,
     pre |-> [cached_token |-> None, token_expiry |-> 0, refresh_token |-> "",
              cache_file |-> NoFile]]

\* the call leaves the manager and the cache file in the state r.s
Commit(r) ==
    /\ cached_token' = r.s.cached_token
    /\ token_expiry' = r.s.token_expiry
    /\ refresh_token' = r.s.refresh_token
    /\ cache_file' = r.s.cache_file

\* The inputs a call consumes: the response to the refresh grant when the
\* call sends one, the response to the client-credentials grant when it
\* sends that one (which depends on the refresh response), and the outcome
\* of the write when it saves.  An input the call does not consume is
\* NoResponse / "none".
Grants(r) == {r.s.requests[i][1] : i \in DOMAIN r.s.requests}
Probe(tm, cfg, rresp, cresp) ==
    IF tm = "none" THEN Ret(None, CallState)
    ELSE get_token(CallState, cfg, rresp, cresp, now, "ok")
SomeOK == Response("200", "tA", MissingKey, Missing, "")
RefreshInputs(tm, cfg) ==
    IF "refresh_token" \in Grants(Probe(tm, cfg, SomeOK, SomeOK))
    THEN RefreshResponses ELSE {NoResponse}
ClientCredentialsInputs(tm, cfg, rresp) ==
    IF "client_credentials" \in Grants(Probe(tm, cfg, rresp, SomeOK))
    THEN ClientCredentialsResponses ELSE {NoResponse}
WriteInputs(tm, cfg, rresp, cresp) ==
    IF Probe(tm, cfg, rresp, cresp).s.writes # <<>> THEN WriteOutcomes ELSE {"none"}

(***************************************************************************)
(* Construction.  app.py builds its TokenManager only after                *)
(* config.validate() passed and keeps None otherwise; TokenManager's own   *)
(* constructor accepts every configuration, so a manager built directly    *)
(* from an incomplete one exists as well.  The cache file is whatever an   *)
(* earlier process, or anything else, left behind.                         *)
(***************************************************************************)
Init ==
    /\ now = 0
    /\ config \in Configs
    /\ token_manager \in (IF validate(config) THEN {"initialized"}
                                              ELSE {"none", "initialized"})
    /\ refresh_token \in RefreshTokens
    /\ cached_token = None
    /\ token_expiry = 0
    /\ cache_file \in InitFiles
    /\ last = Idle

Tick ==
    /\ last = Idle
    /\ now + TickStep <= MaxTime
    /\ now' = now + TickStep
    /\ last' = Idle
    /\ UNCHANGED <<config, token_manager, refresh_token, cached_token,
                   token_expiry, cache_file>>

GetToken ==
    /\ last = Idle
    /\ token_manager = "initialized"
    /\ \E rresp \in RefreshInputs(token_manager, config) :
       \E cresp \in ClientCredentialsInputs(token_manager, config, rresp) :
       \E w \in WriteInputs(token_manager, config, rresp, cresp) :
            LET r == get_token(CallState, config, rresp, cresp, now, w)
            IN  /\ Commit(r)
                /\ last' = Obs("get_token", r, "")
    /\ UNCHANGED <<now, config, token_manager>>

ClearCache ==
    /\ last = Idle
    /\ token_manager = "initialized"
    /\ \E d \in DeleteOutcomes :
            LET r == clear_cache(CallState, d)
            IN  /\ (d = "failed") => (r.s.deletes # <<>>)
                /\ Commit(r)
                /\ last' = Obs("clear_cache", r, "")
    /\ UNCHANGED <<now, config, token_manager>>

IsTokenValid ==
    /\ last = Idle
    /\ token_manager = "initialized"
    /\ LET r == is_token_valid(CallState, now)
       IN  /\ Commit(r)
           /\ last' = Obs("is_token_valid", r, "")
    /\ UNCHANGED <<now, config, token_manager>>

\* OSDUService.get_headers: the Authorization header is "Bearer " + ret
get_headers(s, tm, cfg, rresp, cresp, t, w) ==
    IF tm = "none" THEN Raise(NotInitialized, s)
    ELSE
        LET r == get_token(s, cfg, rresp, cresp, t, w)
        IN  IF r.raised THEN Raise(AuthenticationFailed(r.err), r.s) ELSE r

GetHeaders ==
    /\ last = Idle
    /\ \E rresp \in RefreshInputs(token_manager, config) :
       \E cresp \in ClientCredentialsInputs(token_manager, config, rresp) :
       \E w \in WriteInputs(token_manager, config, rresp, cresp) :
            LET r == get_headers(CallState, token_manager, config, rresp, cresp, now, w)
            IN  /\ Commit(r)
                /\ last' = Obs("get_headers", r, "")
    /\ UNCHANGED <<now, config, token_manager>>

\* api_health: token_valid is `token_manager and token_manager.is_token_valid()`
api_health(s, tm, t) ==
    IF tm = "none" THEN [r |-> Ret(None, s), status |-> "healthy"]
    ELSE
        LET r == is_token_valid(s, t)
        IN  [r |-> r, status |-> IF r.raised THEN "error" ELSE "healthy"]

ApiHealth ==
    /\ last = Idle
    /\ LET h == api_health(CallState, token_manager, now)
       IN  /\ Commit(h.r)
           /\ last' = Obs("api_health", h.r, h.status)
    /\ UNCHANGED <<now, config, token_manager>>

\* the caller takes the result of the call and goes on
Return ==
    /\ last # Idle
    /\ last' = Idle
    /\ UNCHANGED <<now, config, token_manager, refresh_token, cached_token,
                   token_expiry, cache_file>>

Next ==
    \/ Return
    \/ Tick
    \/ GetToken
    \/ ClearCache
    \/ IsTokenValid
    \/ GetHeaders
    \/ ApiHealth

Spec == Init /\ [][Next]_vars

(***************************************************************************)
(* Vocabulary of the properties.  They speak about the observation `last`  *)
(* of a completed call: the state it was called in (last.pre), at time now *)
(* (the clock does not advance while an observation is pending), and the   *)
(* state it left.                                                          *)
(***************************************************************************)
IsNumber(e) == e \notin {NonNumeric, MissingKey}

\* an in-memory token is set and now < token_expiry - 300
MemoryUsable(p) ==
    /\ p.cached_token \notin {None, ""}
    /\ IsNumber(p.token_expiry)
    /\ now < p.token_expiry - 300

\* no in-memory token, or one that is expired by the margin
MemoryAbsentOrExpired(p) ==
    \/ p.cached_token \in {None, ""}
    \/ IsNumber(p.token_expiry) /\ ~(now < p.token_expiry - 300)

\* the file holds a well-formed token record
WellFormed(f) ==
    /\ f.kind = "object"
    /\ f.access_token \in AccessTokens
    /\ IsNumber(f.expiry)

StoreUsable(p) == WellFormed(p.cache_file) /\ now < p.cache_file.expiry - 300

ManagerUnchanged ==
    /\ cached_token = last.pre.cached_token
    /\ token_expiry = last.pre.token_expiry
    /\ refresh_token = last.pre.refresh_token
    /\ cache_file = last.pre.cache_file

NoIO ==
    /\ last.requests = <<>>
    /\ last.reads = 0
    /\ last.writes = <<>>
    /\ last.deletes = <<>>

(***************************************************************************)
(* C1.  Fast path of get_token: whenever an in-memory token is set and     *)
(* now < token_expiry - 300, get_token returns exactly that token, sends   *)
(* no grant request, neither reads nor writes the token store, and leaves  *)
(* the in-memory and the persisted state as they were; a repeated call in  *)
(* the state it leaves returns the same token again.                       *)
(***************************************************************************)
Thm_C1_FastPath ==
    (last.op = "get_token" /\ MemoryUsable(last.pre)) =>
        /\ ~last.raised
        /\ last.ret = last.pre.cached_token
        /\ NoIO
        /\ ManagerUnchanged
        /\ \A rresp \in RefreshResponses, cresp \in ClientCredentialsResponses,
              w \in WriteOutcomes :
                LET again == get_token(CallState, config, rresp, cresp, now, w)
                IN  ~again.raised /\ again.val = last.ret

Wit_C1_FastPath ==
    /\ last.op = "get_token"
    /\ MemoryUsable(last.pre)
    /\ last.pre.cached_token = "tB"
    /\ last.pre.cache_file.kind = "object"
    /\ last.pre.cache_file.access_token = "tA"
    /\ last.ret = "tB"

(***************************************************************************)
(* C2.  Store adoption: when the in-memory token is absent or expired by   *)
(* the margin and the token store holds a record with now < expiry - 300,  *)
(* get_token adopts the record as the in-memory token and returns its      *)
(* access_token without sending any grant request.                         *)
(***************************************************************************)
Thm_C2_StoreAdoption ==
    (last.op = "get_token" /\ MemoryAbsentOrExpired(last.pre) /\ StoreUsable(last.pre)) =>
        /\ ~last.raised
        /\ last.ret = last.pre.cache_file.access_token
        /\ cached_token = last.pre.cache_file.access_token
        /\ token_expiry = last.pre.cache_file.expiry
        /\ last.requests = <<>>
        /\ last.writes = <<>>
        /\ cache_file = last.pre.cache_file

\* a fresh process (nothing in memory) reuses the record an earlier one left
Wit_C2_StoreAdoption ==
    /\ last.op = "get_token"
    /\ last.pre.cached_token = None
    /\ StoreUsable(last.pre)
    /\ last.ret = "tA"
    /\ cached_token = "tA"
    /\ last.requests = <<>>

(***************************************************************************)
(* Vocabulary for token acquisitions.                                      *)
(***************************************************************************)
\* the call ends at the memory check (line 30): it returns or the comparison raises
MemoryAnswers(p) ==
    /\ p.cached_token \notin {None, ""}
    /\ (~IsNumber(p.token_expiry) \/ now < p.token_expiry - 300)

\* the call ends at the store check (line 35)
StoreAnswers(p) ==
    /\ p.cache_file.kind = "object"
    /\ \/ p.cache_file.expiry = NonNumeric
       \/ IsNumber(p.cache_file.expiry) /\ now < p.cache_file.expiry - 300

CompleteConfig == config = Config(TRUE, TRUE, TRUE)

\* the observed call went through _request_new_token with a complete configuration
Acquires ==
    /\ last.op \in {"get_token", "get_headers"}
    /\ token_manager = "initialized"
    /\ CompleteConfig
    /\ ~MemoryAnswers(last.pre)
    /\ ~StoreAnswers(last.pre)

\* a grant response from which a token is obtained
GrantSucceeds(resp) ==
    /\ resp.status = "200"
    /\ resp.access_token \in AccessTokens
    /\ resp.expires_in # NonNumeric

GrantOf(i) == last.requests[i][1]
ResponseOf(i) == last.requests[i][2]
SomeGrantSucceeded == \E i \in DOMAIN last.requests : GrantSucceeds(ResponseOf(i))

\* the exception with which a failed grant ends
FailureOf(grant, resp) ==
    IF resp.status = "exception" THEN <<"requests.RequestException", resp.text>>
    ELSE IF resp.status # "200"
    THEN IF grant = "refresh_token"
         THEN <<"Refresh token request failed: ", resp.text>>
         ELSE <<"Client credentials failed: ", resp.text>>
    ELSE IF resp.access_token \notin AccessTokens THEN <<"No access token in response", "">>
    ELSE <<"TypeError", "">>

(***************************************************************************)
(* C3.  Grant ordering in a token acquisition: with a refresh token        *)
(* configured the refresh-token grant is sent first; the                   *)
(* client-credentials grant is sent if and only if no refresh token is     *)
(* configured or the refresh grant failed (for whatever reason); the call  *)
(* returns the access_token of the first grant that succeeds, so that a    *)
(* failed refresh followed by a successful client-credentials grant yields *)
(* the client-credentials token and no error.                              *)
(***************************************************************************)
Thm_C3_GrantOrdering ==
    Acquires =>
        LET n == Len(last.requests)
            configured == last.pre.refresh_token # ""
        IN  /\ n \in {1, 2}
            /\ configured => GrantOf(1) = "refresh_token"
            /\ ~configured => (n = 1 /\ GrantOf(1) = "client_credentials")
            /\ n = 2 => (GrantOf(1) = "refresh_token" /\ GrantOf(2) = "client_credentials")
            /\ (\E i \in 1..n : GrantOf(i) = "client_credentials")
                   <=> (~configured \/ ~GrantSucceeds(ResponseOf(1)))
            /\ \A i \in 1..(n - 1) : ~GrantSucceeds(ResponseOf(i))
            /\ GrantSucceeds(ResponseOf(n)) =>
                   (~last.raised /\ last.ret = ResponseOf(n).access_token)
            /\ ~GrantSucceeds(ResponseOf(n)) => last.raised

Wit_C3_GrantOrdering ==
    /\ Acquires
    /\ last.op = "get_token"
    /\ Len(last.requests) = 2
    /\ ResponseOf(1).status = "non200"
    /\ ResponseOf(2).status = "200"
    /\ ResponseOf(2).access_token = "tB"
    /\ ~last.raised
    /\ last.ret = "tB"

(***************************************************************************)
(* C4 (as claimed).  get_token raises exactly when no cached token is      *)
(* usable and no grant succeeds; when both grants fail the exception is    *)
(* that of the client-credentials failure.                                 *)
(***************************************************************************)
Cex_C4_RaisesExactlyWhen ==
    last.op = "get_token" =>
        /\ last.raised <=>
               (~MemoryUsable(last.pre) /\ ~StoreUsable(last.pre) /\ ~SomeGrantSucceeded)
        /\ (Len(last.requests) = 2 /\ ~SomeGrantSucceeded) =>
               last.err = FailureOf("client_credentials", ResponseOf(2))

(***************************************************************************)
(* C5.  Effect of a successful acquisition: the in-memory token becomes    *)
(* the response's access_token, the in-memory expiry becomes               *)
(* now + expires_in (3600 when the response has no expires_in), the same   *)
(* token and expiry are written to the token store, and a failure of that  *)
(* write does not fail the call: the new token is returned and is in       *)
(* memory, where the next call finds it as long as it is unexpired.        *)
(***************************************************************************)
Thm_C5_SuccessfulAcquisition ==
    (Acquires /\ last.op = "get_token" /\ SomeGrantSucceeded) =>
        LET resp == ResponseOf(Len(last.requests))
            lifetime == IF resp.expires_in = MissingKey THEN 3600 ELSE resp.expires_in
        IN  /\ ~last.raised
            /\ last.ret = resp.access_token
            /\ cached_token = resp.access_token
            /\ token_expiry = now + lifetime
            /\ Len(last.writes) = 1
            /\ last.writes[1] = "ok" =>
                   /\ cache_file.kind = "object"
                   /\ cache_file.access_token = resp.access_token
                   /\ cache_file.expiry = now + lifetime
                   /\ cache_file.cached_at = now
            /\ last.writes[1] # "ok" =>
                   cache_file \in {last.pre.cache_file, CorruptFile}
            /\ lifetime > 300 =>
                   LET again == get_token(CallState, config, NoResponse, NoResponse, now, "none")
                   IN  /\ ~again.raised
                       /\ again.val = resp.access_token
                       /\ again.s.requests = <<>>
                       /\ again.s.reads = 0

\* the write failed, the response had no expires_in, the call still returned
Wit_C5_SuccessfulAcquisition ==
    /\ Acquires
    /\ last.op = "get_token"
    /\ SomeGrantSucceeded
    /\ last.writes = <<"denied">>
    /\ ResponseOf(Len(last.requests)).expires_in = MissingKey
    /\ last.ret = "tB"
    /\ cached_token = "tB"
    /\ token_expiry = now + 3600
    /\ cache_file # File("object", "tB", now + 3600, now)

(***************************************************************************)
(* C6 (as claimed).  Every token get_token returns, from memory, from the  *)
(* store or from a fresh grant, satisfies now < expires_at - 300 when it   *)
(* is returned, and is_token_valid() is true right after the call.         *)
(***************************************************************************)
Cex_C6_ReturnedWithinMargin ==
    (last.op = "get_token" /\ ~last.raised /\ last.ret \in AccessTokens) =>
        /\ IsNumber(token_expiry)
        /\ now < token_expiry - 300
        /\ is_token_valid(CallState, now).val = PyTrue

Cex_C8_PurePredicate ==
    /\ last.op = "is_token_valid" =>
           /\ ~last.raised
           /\ (last.ret = PyTrue) <=> MemoryUsable(last.pre)
           /\ NoIO
           /\ ManagerUnchanged
    /\ last.op = "api_health" =>
           /\ last.status = "healthy"
           /\ NoIO
           /\ ManagerUnchanged

(***************************************************************************)
(* C9 (as claimed).  A cache file that is not a well-formed record is a    *)
(* cache miss: get_token does not raise because of it and does not return  *)
(* a value taken from it, but goes on to acquire a fresh token.            *)
(***************************************************************************)
Cex_C9_CorruptIsMiss ==
    (/\ last.op = "get_token"
     /\ CompleteConfig
     /\ last.reads > 0
     /\ last.pre.cache_file # NoFile
     /\ ~WellFormed(last.pre.cache_file)) =>
        /\ last.requests # <<>>
        /\ ~last.raised => last.ret = ResponseOf(Len(last.requests)).access_token

(***************************************************************************)
(* C10 (as claimed).  A manager built from a configuration without token   *)
(* endpoint, client id or client secret is never usable: no call of        *)
(* get_token, direct or through get_headers, returns a token.              *)
(***************************************************************************)
Cex_C10_IncompleteConfigUnusable ==
    (~CompleteConfig /\ last.op \in {"get_token", "get_headers"}) =>
        ~(~last.raised /\ last.ret \in AccessTokens)

(***************************************************************************)
(*                      The Record Access Client                           *)
(*                                                                         *)
(* OSDUService of src/app.py: search_records with its ladder of four       *)
(* strategies and get_record_details with its ladder of four endpoints.    *)
(* A call of either advances one strategy per step; nothing else runs      *)
(* while a call is in progress.  In the specification of the client the    *)
(* variable `last` holds the call in progress or just completed: its       *)
(* arguments, its position in the ladder, every strategy it attempted with *)
(* the outcome, every HTTP request it sent and every clear_cache it made.  *)
(***************************************************************************)

(***************************************************************************)
(* Strings that the code takes apart are sequences of pieces: the          *)
(* separators ":" and "--" and the text between them.                      *)
(***************************************************************************)
KindWks == <<"osdu", ":", "wks", ":", "master-data", "--", "Basin", ":", "*">>
KindNoMarker == <<"osdu", ":", "seismic", ":", "work-product", "--", "Log", ":", "*">>
KindNoEntity == <<"osdu", ":", "wks", ":", "dataset", ":", "*">>
KindTwoDashes == <<"osdu", ":", "wks", ":", "work-product", "--", "component", "--", "WellLog", ":", "*">>
KindEmptyEntity == <<"osdu", ":", "wks", ":", "master-data", "--", ":", "*">>
Kinds == {KindWks, KindNoMarker, KindNoEntity, KindTwoDashes, KindEmptyEntity}

WksMarker == <<":", "wks", ":">>
DdmsMarker == <<":", "ddms-wellbore", ":">>

\* sub occurs in str at position i
OccursAt(str, sub, i) ==
    /\ i + Len(sub) - 1 <= Len(str)
    /\ \A j \in 1..Len(sub) : str[i + j - 1] = sub[j]

\* Python's `sub in str`
Contains(str, sub) == \E i \in 1..Len(str) : OccursAt(str, sub, i)

\* Python's str.replace(sub, by): every occurrence, from the left
RECURSIVE ReplaceFrom(_, _, _, _)
ReplaceFrom(str, sub, by, i) ==
    IF i > Len(str) THEN <<>>
    ELSE IF OccursAt(str, sub, i) THEN by \o ReplaceFrom(str, sub, by, i + Len(sub))
    ELSE <<str[i]>> \o ReplaceFrom(str, sub, by, i + 1)
Replace(str, sub, by) == ReplaceFrom(str, sub, by, 1)

\* Python's str.split(sep)[-1]: what follows the last sep (all of str without one)
AfterLast(str, sep) ==
    LET at == {i \in 1..Len(str) : str[i] = sep}
    IN  IF at = {} THEN str
        ELSE LET m == CHOOSE i \in at : \A j \in at : j <= i
             IN  SubSeq(str, m + 1, Len(str))

\* Python's str.split(sep)[0]: what precedes the first sep (all of str without one)
BeforeFirst(str, sep) ==
    LET at == {i \in 1..Len(str) : str[i] = sep}
    IN  IF at = {} THEN str
        ELSE LET m == CHOOSE i \in at : \A j \in at : i <= j
             IN  SubSeq(str, 1, m - 1)

\* entity_name that takes what follows the first '--'
entity_name_firstDash(kind) ==
    IF Contains(kind, <<"--">>)
    THEN LET m == CHOOSE i \in 1..Len(kind) :
                      kind[i] = "--" /\ \A j \in 1..(i - 1) : kind[j] # "--"
         IN  BeforeFirst(SubSeq(kind, m + 1, Len(kind)), ":")
    ELSE <<>>

\* entity_name of search_records (line 83); <<>> stands for None and for ""
entity_name(kind) ==
    IF Contains(kind, <<"--">>) THEN BeforeFirst(AfterLast(kind, "--"), ":") ELSE <<>>

(***************************************************************************)
(* The returned_fields argument: None, a string or a list of strings.      *)
(***************************************************************************)
FieldsNone == [t |-> "none", str |-> "", list |-> <<>>]
FieldsStr(x) == [t |-> "str", str |-> x, list |-> <<>>]
FieldsList(l) == [t |-> "list", str |-> "", list |-> l]
FieldSpecs ==
    {FieldsNone, FieldsStr("basic"), FieldsStr("all"), FieldsStr("name"), FieldsStr(""),
     FieldsList(<<"id", "data.name">>), FieldsList(<<>>)}

\* Python's truth value of the argument
FieldsTruthy(rf) ==
    \/ rf.t = "str" /\ rf.str # ""
    \/ rf.t = "list" /\ rf.list # <<>>

MaxLimit == 1000
\* min that lets its first argument through
Min_noClamp(a, b) == a

Min(a, b) == IF a <= b THEN a ELSE b

(***************************************************************************)
(* The JSON body of a search request.  has_fields tells whether the body   *)
(* has a returnedFields entry at all; kind and query are <<>> when the     *)
(* body has no such entry.                                                 *)
(***************************************************************************)
Payload(k, q, l, o, h, f) ==
    [kind |-> k, query |-> q, limit |-> l, offset |-> o, has_fields |-> h, fields |-> f]

\* the payload _try_search_with_kind builds (lines 106-123)
kind_payload(kind, limit, offset, rf) ==
    LET base == Payload(kind, <<>>, Min(limit, MaxLimit), offset, FALSE, <<>>)
    IN  IF ~FieldsTruthy(rf) THEN base
        ELSE IF rf.t = "str"
        THEN IF rf.str = "basic"
             THEN [base EXCEPT !.has_fields = TRUE, !.fields = <<"id", "kind", "data">>]
             ELSE IF rf.str = "all" THEN base
             ELSE [base EXCEPT !.has_fields = TRUE,
                               !.fields = <<"id", "kind", "data." \o rf.str>>]
        ELSE [base EXCEPT !.has_fields = TRUE, !.fields = rf.list]

\* the payload _try_search_with_query builds (lines 175-180)
query_payload(query, limit, offset) ==
    Payload(<<>>, query, Min(limit, MaxLimit), offset, TRUE, <<"id", "kind", "data">>)

(***************************************************************************)
(* Responses of the search and storage endpoints: status "200" with the    *)
(* list of records of the JSON body, an HTTP error status with the body    *)
(* text, or "exception" when requests.post itself raises.                  *)
(***************************************************************************)
Http(st, r, x) == [status |-> st, results |-> r, text |-> x]
NoHttp == Http("none", <<>>, "")
ResultLists == {<<>>, <<"recA">>, <<"recB">>, <<"recB", "recA">>}
HttpErrors ==
    {Http("401", <<>>, "unauthorized"), Http("500", <<>>, "server error"),
     Http("exception", <<>>, "connection refused")}
HttpResponses == {Http("200", r, "") : r \in ResultLists} \cup HttpErrors

\* what the identity provider answers to the grants of the client's calls
ClientGrantResponses ==
    {Response("200", "tB", MissingKey, Missing, ""),
     Response("non200", None, MissingKey, Missing, "e1")}

(***************************************************************************)
(* The dictionaries the strategies return: `error` is <<>> when the        *)
(* dictionary has no error entry, else the pieces of the message.          *)
(***************************************************************************)
Dict(e, r) == [error |-> e, results |-> r]
NoDict == Dict(<<>>, <<>>)
ApiRequestFailed(resp) == <<"API request failed: ", resp.status, " - ", resp.text>>
QuerySearchFailed(resp) == <<"Query search failed: ", resp.status, " - ", resp.text>>
ConnectionError(resp) == <<"requests.ConnectionError", resp.text>>

(***************************************************************************)
(* The state of a client call: the TokenManager's state with its trace     *)
(* (s), the HTTP requests sent so far and the number of clear_cache calls. *)
(* The environment's inputs to one strategy attempt, in the order in which *)
(* the attempt consumes them: the identity provider's answer should the    *)
(* first get_headers acquire a token (g1), the endpoint's answer (r1), the *)
(* outcome of removing the cache file (d), then the same for the retry     *)
(* (g2, r2) and for the get_headers of the error log, line 162 (g3).  An   *)
(* attempt that needs the k-th input and finds none is starved at k.       *)
(***************************************************************************)
Inputs(g1, r1, d, g2, r2, g3) ==
    [g1 |-> g1, r1 |-> r1, d |-> d, g2 |-> g2, r2 |-> r2, g3 |-> g3]
NoInputs == Inputs(NoResponse, NoHttp, "none", NoResponse, NoHttp, NoResponse)

ClientState == [s |-> CallState, http |-> <<>>, clears |-> 0]

Starved(k, c) == [starved |-> k, raised |-> FALSE, err |-> NoError, result |-> NoDict, c |-> c]
Returns(res, c) == [starved |-> 0, raised |-> FALSE, err |-> NoError, result |-> res, c |-> c]
Throws(e, c) == [starved |-> 0, raised |-> TRUE, err |-> e, result |-> NoDict, c |-> c]

SearchUrl == <<"api/search/v2/query">>
NoBody == [body |-> None]

\* v under the name F gives it: F sees the value of v, computed once
Bind(v, F(_)) == CHOOSE r \in {F(x) : x \in {v}} : TRUE

\* self.get_headers() with the identity provider answering g to a grant
headers(c, g) ==
    get_headers(c.s, token_manager, config, NoResponse, g, now,
                IF g = NoResponse THEN "none" ELSE "ok")
\* the call h of get_headers sent a grant and there was no answer g to it
HeadersStarved(c, h, g) ==
    g = NoResponse /\ Len(h.s.requests) > Len(c.s.requests)

\* requests.post(url, headers=..., json=payload) answered by resp; grants is
\* the number of grant requests the token manager had sent by then
Sent(c, k, url, payload, token, resp) ==
    [c EXCEPT !.http = Append(@, [strategy |-> k, url |-> url, payload |-> payload,
                                   token |-> token, response |-> resp,
                                   grants |-> Len(c.s.requests)])]

\* lines 151-165: the error log, which asks for the headers once more
log_and_fail(c, resp, in) ==
    Bind(headers(c, in.g3), LAMBDA h3 :
        IF HeadersStarved(c, h3, in.g3) THEN Starved(6, c)
        ELSE IF h3.raised THEN Throws(h3.err, [c EXCEPT !.s = h3.s])
        ELSE Returns(Dict(ApiRequestFailed(resp), <<>>), [c EXCEPT !.s = h3.s]))

\* lines 144-149: the request once more, with the headers h2 of line 145
retry(c1, h2, k, payload, first, in) ==
    IF HeadersStarved(c1, h2, in.g2) THEN Starved(4, c1)
    ELSE Bind([c1 EXCEPT !.s = h2.s], LAMBDA c2 :
        IF h2.raised THEN log_and_fail(c2, first, in)
        ELSE IF in.r2 = NoHttp THEN Starved(5, c2)
        ELSE Bind(Sent(c2, k, SearchUrl, payload, h2.val, in.r2), LAMBDA c3 :
            IF in.r2.status = "200" THEN Returns(Dict(<<>>, in.r2.results), c3)
            ELSE IF in.r2.status = "exception" THEN log_and_fail(c3, first, in)
            ELSE log_and_fail(c3, in.r2, in)))

\* retry_after_401 that tries once more without clearing the token cache
retry_after_401_noClear(c, k, payload, first, in) ==
    Bind(headers(c, in.g2), LAMBDA h2 : retry(c, h2, k, payload, first, in))

\* lines 140-149: clear the token cache and try once more
retry_after_401(c, k, payload, first, in) ==
    IF c.s.cache_file # NoFile /\ in.d = "none" THEN Starved(3, c)
    ELSE Bind([c EXCEPT !.s = clear_cache(c.s, in.d).s, !.clears = @ + 1], LAMBDA c1 :
         Bind(headers(c1, in.g2), LAMBDA h2 : retry(c1, h2, k, payload, first, in)))

\* lines 132-169: the request with the headers h1 of line 132
search_with_kind(c, h1, k, payload, in) ==
    IF HeadersStarved(c, h1, in.g1) THEN Starved(1, c)
    ELSE Bind([c EXCEPT !.s = h1.s], LAMBDA c1 :
        IF h1.raised THEN Returns(Dict(h1.err, <<>>), c1)
        ELSE IF in.r1 = NoHttp THEN Starved(2, c1)
        ELSE Bind(Sent(c1, k, SearchUrl, payload, h1.val, in.r1), LAMBDA c2 :
            IF in.r1.status = "200" THEN Returns(Dict(<<>>, in.r1.results), c2)
            ELSE IF in.r1.status = "exception"
            THEN Returns(Dict(ConnectionError(in.r1), <<>>), c2)
            ELSE IF in.r1.status = "401" THEN retry_after_401(c2, k, payload, in.r1, in)
            ELSE log_and_fail(c2, in.r1, in)))

\* _try_search_with_kind (lines 101-169) as strategy k of a ladder
try_search_with_kind(c, k, kind, limit, offset, rf, in) ==
    Bind(headers(c, in.g1), LAMBDA h1 :
        search_with_kind(c, h1, k, kind_payload(kind, limit, offset, rf), in))

\* lines 186-208: the request with the headers h1 of line 186
search_with_query(c, h1, k, payload, in) ==
    IF HeadersStarved(c, h1, in.g1) THEN Starved(1, c)
    ELSE Bind([c EXCEPT !.s = h1.s], LAMBDA c1 :
        IF h1.raised THEN Returns(Dict(h1.err, <<>>), c1)
        ELSE IF in.r1 = NoHttp THEN Starved(2, c1)
        ELSE Bind(Sent(c1, k, SearchUrl, payload, h1.val, in.r1), LAMBDA c2 :
            IF in.r1.status = "200" THEN Returns(Dict(<<>>, in.r1.results), c2)
            ELSE IF in.r1.status = "exception"
            THEN Returns(Dict(ConnectionError(in.r1), <<>>), c2)
            ELSE Returns(Dict(QuerySearchFailed(in.r1), <<>>), c2)))

\* _try_search_with_query (lines 171-208) as strategy k of a ladder
try_search_with_query(c, k, query, limit, offset, in) ==
    Bind(headers(c, in.g1), LAMBDA h1 :
        search_with_query(c, h1, k, query_payload(query, limit, offset), in))

(***************************************************************************)
(* Record details.  The strategies of get_record_details share one shape:  *)
(* ask for the headers, send one request, raise for an error status, read  *)
(* the JSON body; any exception becomes {"error": str(e)}.                 *)
(***************************************************************************)
\* {"error": e, "records": r}, or {"records": r} when e is <<>>
Details(e, r) == [error |-> e, records |-> r, shape |-> "dict"]
\* {"error": str(e)}: what a failed strategy returns, without a records entry
OnlyError(e) == [error |-> e, records |-> <<>>, shape |-> "error"]
\* a record as an endpoint returned it
TheRecord(rec) == [error |-> <<>>, records |-> <<rec>>, shape |-> "record"]
\* what a strategy made of the answer a: its error, or else the value ok
ErrorOr(a, ok) == IF a.error # <<>> THEN OnlyError(a.error) ELSE ok
HTTPError(resp) == <<"requests.HTTPError", resp.status, resp.text>>
NoRecordIds == <<"No record IDs provided">>
RecordNotFound == <<"Record not found in search results">>
CouldNotRetrieve == <<"Could not retrieve record details">>

RecordIdLists == {<<>>, <<"recA">>, <<"recA", "recB">>}

\* the answer of the endpoint as the strategies see it: the headers could
\* not be had (error), or the response and the error raise_for_status raised
Answer(k, e, resp, c) == [starved |-> k, error |-> e, resp |-> resp, c |-> c]

\* try: requests.<method>(url, headers=self.get_headers(), ...); raise_for_status()
\* except Exception as e: the caller returns {"error": str(e)}
request_json(c, k, url, payload, in) ==
    Bind(headers(c, in.g1), LAMBDA h1 :
        IF HeadersStarved(c, h1, in.g1) THEN Answer(1, <<>>, NoHttp, c)
        ELSE Bind([c EXCEPT !.s = h1.s], LAMBDA c1 :
            IF h1.raised THEN Answer(0, h1.err, NoHttp, c1)
            ELSE IF in.r1 = NoHttp THEN Answer(2, <<>>, NoHttp, c1)
            ELSE Answer(0,
                        IF in.r1.status = "200" THEN <<>>
                        ELSE IF in.r1.status = "exception" THEN ConnectionError(in.r1)
                        ELSE HTTPError(in.r1),
                        in.r1, Sent(c1, k, url, payload, h1.val, in.r1))))

\* _try_get_record_by_id (lines 240-255): the body is the record
try_get_record_by_id(c, record_id, in) ==
    Bind(request_json(c, 1, <<"api/storage/v2/records/", record_id>>, NoBody, in), LAMBDA a :
        IF a.starved # 0 THEN Starved(a.starved, a.c)
        ELSE Returns(ErrorOr(a, TheRecord(Head(a.resp.results))), a.c))

\* _try_batch_records_v1 (lines 257-276): the body is returned as it is
try_batch_records_v1(c, record_ids, in) ==
    Bind(request_json(c, 2, <<"api/storage/v2/records">>, [recordIds |-> record_ids], in),
         LAMBDA a :
        IF a.starved # 0 THEN Starved(a.starved, a.c)
        ELSE Returns(ErrorOr(a, Details(<<>>, a.resp.results)), a.c))

\* _try_batch_records_v2 (lines 278-297): the body is returned as it is
try_batch_records_v2(c, record_ids, in) ==
    Bind(request_json(c, 3, <<"api/storage/v2/query/records">>, [records |-> record_ids], in),
         LAMBDA a :
        IF a.starved # 0 THEN Starved(a.starved, a.c)
        ELSE Returns(ErrorOr(a, Details(<<>>, a.resp.results)), a.c))

\* try_get_record_via_search that takes the last hit and accepts an empty answer
try_get_record_via_search_anyHit(c, record_id, in) ==
    Bind(request_json(c, 4, SearchUrl,
                      [query |-> <<"id:", record_id>>, limit |-> 1, returnedFields |-> <<"*">>],
                      in), LAMBDA a :
        IF a.starved # 0 THEN Starved(a.starved, a.c)
        ELSE IF a.error # <<>> THEN Returns(OnlyError(a.error), a.c)
        ELSE IF a.resp.results # <<>>
        THEN Returns(TheRecord(a.resp.results[Len(a.resp.results)]), a.c)
        ELSE Returns(TheRecord(""), a.c))

\* _try_get_record_via_search (lines 299-325): the first hit, or an error
try_get_record_via_search(c, record_id, in) ==
    Bind(request_json(c, 4, SearchUrl,
                      [query |-> <<"id:", record_id>>, limit |-> 1, returnedFields |-> <<"*">>],
                      in), LAMBDA a :
        IF a.starved # 0 THEN Starved(a.starved, a.c)
        ELSE IF a.error # <<>> THEN Returns(OnlyError(a.error), a.c)
        ELSE IF a.resp.results # <<>> THEN Returns(TheRecord(Head(a.resp.results)), a.c)
        ELSE Returns(OnlyError(RecordNotFound), a.c))

(***************************************************************************)
(* The inputs an attempt A consumes, found by running it: the k-th input   *)
(* is drawn only when A is starved at k without it.  R is what the         *)
(* endpoint of the attempt can answer.                                     *)
(***************************************************************************)
InputsFor(A(_), R) ==
    LET S1 == {[NoInputs EXCEPT !.g1 = g] :
                  g \in IF A(NoInputs).starved = 1 THEN ClientGrantResponses ELSE {NoResponse}}
        S2 == UNION {{[i EXCEPT !.r1 = r] :
                  r \in IF A(i).starved = 2 THEN R ELSE {NoHttp}} : i \in S1}
        S3 == UNION {{[i EXCEPT !.d = d] :
                  d \in IF A(i).starved = 3 THEN DeleteOutcomes ELSE {"none"}} : i \in S2}
        S4 == UNION {{[i EXCEPT !.g2 = g] :
                  g \in IF A(i).starved = 4 THEN ClientGrantResponses ELSE {NoResponse}} : i \in S3}
        S5 == UNION {{[i EXCEPT !.r2 = r] :
                  r \in IF A(i).starved = 5 THEN R ELSE {NoHttp}} : i \in S4}
    IN  UNION {{[i EXCEPT !.g3 = g] :
                  g \in IF A(i).starved = 6 THEN ClientGrantResponses ELSE {NoResponse}} : i \in S5}

(***************************************************************************)
(* search_records (lines 59-99), one strategy per step.                    *)
(***************************************************************************)
SearchArgs(kind, limit, offset, rf, alt) ==
    [kind |-> kind, limit |-> limit, offset |-> offset, returned_fields |-> rf,
     try_alternatives |-> alt]

\* the calls made: every kind with the defaults of search_records, with and
\* without alternatives, and a large page further on with every FieldSpec
DefaultLimit == 50
LargeLimit == 2000
SomeOffset == 10
SearchCalls ==
    {SearchArgs(k, DefaultLimit, 0, FieldsNone, alt) : k \in Kinds, alt \in BOOLEAN}
    \cup {SearchArgs(KindWks, LargeLimit, SomeOffset, rf, FALSE) : rf \in FieldSpecs}
    \cup {SearchArgs(KindWks, LargeLimit, SomeOffset, FieldsStr("basic"), TRUE)}

\* Applicable that tries the alternate domain whatever the kind is
Applicable_anyKind(k, kind) ==
    IF k = 2 THEN TRUE ELSE entity_name(kind) # <<>>

\* lines 75, 84, 92: whether strategy k is tried for this kind
Applicable(k, kind) ==
    IF k = 2 THEN Contains(kind, WksMarker) ELSE entity_name(kind) # <<>>

\* NextStrategy that goes to the last applicable strategy at once
NextStrategy_skips(k, kind) ==
    LET later == {j \in (k + 1)..4 : Applicable(j, kind)}
    IN  IF later = {} THEN 5 ELSE CHOOSE j \in later : \A i \in later : i <= j

\* the next strategy tried after strategy k failed; 5 when there is none
NextStrategy(k, kind) ==
    LET later == {j \in (k + 1)..4 : Applicable(j, kind)}
    IN  IF later = {} THEN 5 ELSE CHOOSE j \in later : \A i \in later : j <= i

\* the attempt strategy k makes (lines 64, 76-78, 85-87, 94)
search_strategy(c, k, args, in) ==
    IF k = 1
    THEN try_search_with_kind(c, 1, args.kind, args.limit, args.offset,
                              args.returned_fields, in)
    ELSE IF k = 2
    THEN try_search_with_kind(c, 2, Replace(args.kind, WksMarker, DdmsMarker),
                              args.limit, args.offset, args.returned_fields, in)
    ELSE IF k = 3
    THEN try_search_with_query(c, 3, <<"*">> \o entity_name(args.kind) \o <<"*">>,
                               args.limit, args.offset, in)
    ELSE try_search_with_query(c, 4, <<"kind:", "*">> \o entity_name(args.kind) \o <<"*">>,
                               args.limit, args.offset, in)

\* a call of the client at strategy pc
Call(op, args) ==
    [op |-> op, args |-> args, pc |-> 1, attempts |-> <<>>, c |-> ClientState,
     done |-> FALSE, raised |-> FALSE, err |-> NoError, result |-> NoDict, pre |-> Pre]

Attempted(call, a) ==
    [call EXCEPT !.attempts = Append(@, [strategy |-> call.pc, raised |-> a.raised,
                                         result |-> a.result]),
                 !.c = a.c]
Finished(call, res) == [call EXCEPT !.done = TRUE, !.result = res]
Failed(call, e) == [call EXCEPT !.done = TRUE, !.raised = TRUE, !.err = e]

\* search_records that goes on to the alternatives whatever try_alternatives says
search_records_ignoresFlag(call, a) ==
    LET after == Attempted(call, a)
        next == NextStrategy(call.pc, call.args.kind)
    IN  IF a.raised THEN Failed(after, a.err)
        ELSE IF a.result.error = <<>> THEN Finished(after, a.result)
        ELSE IF next = 5 THEN Finished(after, after.attempts[1].result)
        ELSE [after EXCEPT !.pc = next]

\* search_records that takes a result without records for a failure
search_records_emptyFails(call, a) ==
    LET after == Attempted(call, a)
        next == NextStrategy(call.pc, call.args.kind)
    IN  IF a.raised THEN Failed(after, a.err)
        ELSE IF a.result.error = <<>> /\ a.result.results # <<>> THEN Finished(after, a.result)
        ELSE IF call.pc = 1 /\ ~call.args.try_alternatives THEN Finished(after, a.result)
        ELSE IF next = 5 THEN Finished(after, after.attempts[1].result)
        ELSE [after EXCEPT !.pc = next]

\* what search_records does with the outcome a of strategy call.pc
search_records(call, a) ==
    LET after == Attempted(call, a)
        next == NextStrategy(call.pc, call.args.kind)
    IN  IF a.raised THEN Failed(after, a.err)
        ELSE IF a.result.error = <<>> THEN Finished(after, a.result)
        ELSE IF call.pc = 1 /\ ~call.args.try_alternatives THEN Finished(after, a.result)
        ELSE IF next = 5 THEN Finished(after, after.attempts[1].result)
        ELSE [after EXCEPT !.pc = next]

SearchStep(call) ==
    \E in \in InputsFor(LAMBDA i : search_strategy(call.c, call.pc, call.args, i),
                        HttpResponses) :
    \E a \in {search_strategy(call.c, call.pc, call.args, in)} :
        /\ last' = search_records(call, a)
        /\ Commit(a.c)
        /\ UNCHANGED <<now, config, token_manager>>

\* a caller calls osdu_service.search_records(...): strategy 1
SearchRecords ==
    /\ last.op = "idle"
    /\ \E args \in SearchCalls : SearchStep(Call("search_records", args))

\* the call goes on with the next strategy of its ladder
SearchAlternative ==
    /\ last.op = "search_records"
    /\ ~last.done
    /\ SearchStep(last)

(***************************************************************************)
(* get_record_details (lines 210-238), one strategy per step.              *)
(***************************************************************************)
\* detail_strategy with the two batch endpoints in the other order
detail_strategy_swapped(c, k, record_ids, in) ==
    IF k = 1 THEN try_get_record_by_id(c, record_ids[1], in)
    ELSE IF k = 2 THEN try_batch_records_v2(c, record_ids, in)
    ELSE IF k = 3 THEN try_batch_records_v1(c, record_ids, in)
    ELSE try_get_record_via_search(c, record_ids[1], in)

detail_strategy(c, k, record_ids, in) ==
    IF k = 1 THEN try_get_record_by_id(c, record_ids[1], in)
    ELSE IF k = 2 THEN try_batch_records_v1(c, record_ids, in)
    ELSE IF k = 3 THEN try_batch_records_v2(c, record_ids, in)
    ELSE try_get_record_via_search(c, record_ids[1], in)

\* what the endpoint of detail strategy k can answer
DetailResponses(k, record_ids) ==
    IF k = 1 THEN {Http("200", <<record_ids[1]>>, "")} \cup HttpErrors
    ELSE HttpResponses

\* get_record_details that ends with the error of its last strategy
get_record_details_lastError(call, a) ==
    LET after == Attempted(call, a)
    IN  IF a.result.error = <<>>
        THEN IF call.pc \in {1, 4} THEN Finished(after, Details(<<>>, a.result.records))
             ELSE Finished(after, a.result)
        ELSE IF call.pc = 4 THEN Finished(after, Details(a.result.error, <<>>))
        ELSE [after EXCEPT !.pc = call.pc + 1]

\* get_record_details that hands on what its strategies returned, as it is
get_record_details_unwrapped(call, a) ==
    LET after == Attempted(call, a)
    IN  IF a.result.error = <<>> \/ call.pc = 4 THEN Finished(after, a.result)
        ELSE [after EXCEPT !.pc = call.pc + 1]

\* what get_record_details does with the outcome a of strategy call.pc
get_record_details(call, a) ==
    LET after == Attempted(call, a)
    IN  IF a.result.error = <<>>
        THEN IF call.pc \in {1, 4} THEN Finished(after, Details(<<>>, a.result.records))
             ELSE Finished(after, a.result)
        ELSE IF call.pc = 4 THEN Finished(after, Details(CouldNotRetrieve, <<>>))
        ELSE [after EXCEPT !.pc = call.pc + 1]

DetailStep(call) ==
    \E in \in InputsFor(LAMBDA i : detail_strategy(call.c, call.pc, call.args, i),
                        DetailResponses(call.pc, call.args)) :
    \E a \in {detail_strategy(call.c, call.pc, call.args, in)} :
        /\ last' = get_record_details(call, a)
        /\ Commit(a.c)
        /\ UNCHANGED <<now, config, token_manager>>

\* a caller calls osdu_service.get_record_details(record_ids)
GetRecordDetails ==
    /\ last.op = "idle"
    /\ \E ids \in RecordIdLists :
        IF ids = <<>>
        THEN /\ last' = Finished(Call("get_record_details", ids), Details(NoRecordIds, <<>>))
             /\ UNCHANGED <<now, config, token_manager, refresh_token, cached_token,
                            token_expiry, cache_file>>
        ELSE DetailStep(Call("get_record_details", ids))

\* the call goes on with the next strategy of its ladder
DetailAlternative ==
    /\ last.op = "get_record_details"
    /\ ~last.done
    /\ DetailStep(last)

\* the caller takes the result, or the exception, of the completed call
ReturnResult ==
    /\ last.op \in {"search_records", "get_record_details"}
    /\ last.done
    /\ last' = Idle
    /\ UNCHANGED <<now, config, token_manager, refresh_token, cached_token,
                   token_expiry, cache_file>>

(***************************************************************************)
(* The specification of the client.  app.py validates the configuration    *)
(* and builds the TokenManager, or keeps None when validation fails; the   *)
(* manager starts with nothing in memory and the cache file is absent or   *)
(* holds a token an earlier process saved.                                 *)
(***************************************************************************)
ClientFiles == {NoFile, File("object", "tA", 3600, 0)}

InitClient ==
    /\ now = 0
    /\ config \in Configs
    /\ token_manager = IF validate(config) THEN "initialized" ELSE "none"
    /\ refresh_token = ""
    /\ cached_token = None
    /\ token_expiry = 0
    /\ cache_file \in ClientFiles
    /\ last = Idle

NextClient ==
    \/ SearchRecords
    \/ SearchAlternative
    \/ GetRecordDetails
    \/ DetailAlternative
    \/ ReturnResult

SpecClient == InitClient /\ [][NextClient]_vars

(***************************************************************************)
(* C29.  Refresh-token rotation happens only on a successful refresh       *)
(* grant: a get_token call whose refresh grant failed in any way (a        *)
(* non-200 status, an exception, a 200 response without access_token)      *)
(* leaves the stored refresh token as it was before the call.              *)
(***************************************************************************)
Cex_C29_RotationOnlyOnSuccess ==
    (/\ last.op = "get_token"
     /\ last.requests # <<>>
     /\ GrantOf(1) = "refresh_token"
     /\ ~GrantSucceeds(ResponseOf(1))) =>
        refresh_token = last.pre.refresh_token

(***************************************************************************)
(*                  Concurrent callers of the TokenManager                 *)
(*                                                                         *)
(* app.run serves requests on threads that share the one TokenManager of   *)
(* app.py; token_manager.py takes no lock.  Each thread runs get_token or  *)
(* clear_cache one statement at a time, and the statements of different    *)
(* threads interleave.  In this specification `last` holds the threads:    *)
(* the position of each in its call, its local variables (the cache data   *)
(* it read, the grant it sent, the token it is about to save, the file it  *)
(* has open) and what its last call returned, with the grants sent so far. *)
(***************************************************************************)
Threads == {1, 2}
MaxCalls == 2

\* the file while a writer has opened it with mode 'w' and not yet written
TruncatedFile == File("truncated", None, 0, 0)
\* a record an earlier process saved, outside or inside the safety margin
ThreadFiles == {NoFile, File("object", "tA", 3600, 0), File("object", "tA", SafetyMargin, 0)}

\* the identity provider issues a token of its own to every grant
Issued(n) == IF n = 0 THEN "tB" ELSE IF n = 1 THEN "tC" ELSE "tD"
GrantOutcomes == {"200", "non200"}

Thread(pc, calls) ==
    [pc |-> pc, calls |-> calls, data |-> NoFile, grant |-> "", sent |-> "",
     token |-> None, expiry |-> 0, fd |-> 0, ret |-> None, raised |-> FALSE,
     returned |-> FALSE]

ThreadsIdle ==
    [op |-> "threads", th |-> [t \in Threads |-> Thread("idle", 0)], gen |-> 0, grants |-> <<>>]

At(t, pc) == last.op = "threads" /\ last.th[t].pc = pc
Goto(t, pc) == [last EXCEPT !.th[t].pc = pc]
Manager == <<refresh_token, cached_token, token_expiry>>

\* a request handler calls token_manager.get_token()
CallGetToken(t) ==
    /\ At(t, "idle")
    /\ last.th[t].calls < MaxCalls
    /\ last' = [last EXCEPT !.th[t] = Thread("memory", last.th[t].calls + 1)]
    /\ UNCHANGED <<now, config, token_manager, Manager, cache_file>>

\* line 30: the memory check
CheckMemory(t) ==
    /\ At(t, "memory")
    /\ last' = IF Truthy(cached_token) /\ Unexpired(token_expiry, now)
               THEN Goto(t, "return") ELSE Goto(t, "load")
    /\ UNCHANGED <<now, config, token_manager, Manager, cache_file>>

\* lines 31 and 36: return self._cached_token, whatever it is by now
ReturnCached(t) ==
    /\ At(t, "return")
    /\ last' = [last EXCEPT !.th[t].pc = "idle", !.th[t].ret = cached_token,
                            !.th[t].returned = TRUE]
    /\ UNCHANGED <<now, config, token_manager, Manager, cache_file>>

\* lines 44-46: read the cache file as it is at this moment
ReadFile(t) ==
    /\ At(t, "load")
    /\ last' = [last EXCEPT !.th[t].data = cache_file,
                            !.th[t].pc = IF cache_file.kind = "object" THEN "adopt"
                                         ELSE "request"]
    /\ UNCHANGED <<now, config, token_manager, Manager, cache_file>>

\* lines 47-49 and 35: adopt what was read and test its expiry
Adopt(t) ==
    /\ At(t, "adopt")
    /\ cached_token' = last.th[t].data.access_token
    /\ token_expiry' = last.th[t].data.expiry
    /\ last' = IF Unexpired(last.th[t].data.expiry, now)
               THEN Goto(t, "return") ELSE Goto(t, "request")
    /\ UNCHANGED <<now, config, token_manager, refresh_token, cache_file>>

\* lines 73-75 and 84-96, or 80 and 111-122: send the grant request
SendGrant(t) ==
    /\ At(t, "request")
    /\ LET grant == IF Truthy(refresh_token) /\ last.th[t].grant = ""
                    THEN "refresh_token" ELSE "client_credentials"
       IN  last' = [last EXCEPT !.th[t].pc = "await",
                                !.th[t].grant = grant,
                                !.th[t].sent = IF grant = "refresh_token"
                                               THEN refresh_token ELSE "",
                                !.grants = Append(@, <<t, grant>>)]
    /\ UNCHANGED <<now, config, token_manager, Manager, cache_file>>

\* lines 98-107 or 124-128 with 132-138: the response arrives
ReceiveGrant(t) ==
    /\ At(t, "await")
    /\ \E status \in GrantOutcomes :
        IF status = "200"
        THEN /\ refresh_token' = IF last.th[t].grant = "refresh_token"
                                 THEN "rB" ELSE refresh_token
             /\ token_expiry' = now + DefaultExpiresIn
             /\ cached_token' = Issued(Len(last.grants) - 1)
             /\ last' = [last EXCEPT !.th[t].pc = "open",
                                     !.th[t].token = Issued(Len(last.grants) - 1),
                                     !.th[t].expiry = now + DefaultExpiresIn]
        ELSE /\ last' = IF last.th[t].grant = "refresh_token"
                        THEN Goto(t, "request")
                        ELSE [last EXCEPT !.th[t].pc = "idle", !.th[t].raised = TRUE]
             /\ UNCHANGED Manager
    /\ UNCHANGED <<now, config, token_manager, cache_file>>

\* line 62: open(self._cache_file, 'w') creates or empties the file
OpenFile(t) ==
    /\ At(t, "open")
    /\ cache_file' = TruncatedFile
    /\ last' = [last EXCEPT !.th[t].pc = "write",
                            !.gen = IF cache_file = NoFile THEN @ + 1 ELSE @,
                            !.th[t].fd = IF cache_file = NoFile THEN last.gen + 1
                                         ELSE last.gen]
    /\ UNCHANGED <<now, config, token_manager, Manager>>

\* lines 63 and 144: json.dump into the open file (one that was removed in
\* the meantime stays removed), then return access_token
WriteFile(t) ==
    /\ At(t, "write")
    /\ cache_file' = IF cache_file # NoFile /\ last.th[t].fd = last.gen
                     THEN File("object", last.th[t].token, last.th[t].expiry, now)
                     ELSE cache_file
    /\ last' = [last EXCEPT !.th[t].pc = "idle", !.th[t].ret = last.th[t].token,
                            !.th[t].returned = TRUE]
    /\ UNCHANGED <<now, config, token_manager, Manager>>

\* a request handler calls token_manager.clear_cache(); lines 148-149
CallClearCache(t) ==
    /\ At(t, "idle")
    /\ last.th[t].calls < MaxCalls
    /\ cached_token' = None
    /\ token_expiry' = 0
    /\ last' = [last EXCEPT !.th[t] = Thread("remove", last.th[t].calls + 1)]
    /\ UNCHANGED <<now, config, token_manager, refresh_token, cache_file>>

\* lines 151-152: remove the cache file when it exists
RemoveFile(t) ==
    /\ At(t, "remove")
    /\ cache_file' = NoFile
    /\ last' = Goto(t, "idle")
    /\ UNCHANGED <<now, config, token_manager, Manager>>

InitThreads ==
    /\ now = 0
    /\ config = Config(TRUE, TRUE, TRUE)
    /\ token_manager = "initialized"
    /\ refresh_token \in RefreshTokens
    /\ cached_token = None
    /\ token_expiry = 0
    /\ cache_file \in ThreadFiles
    /\ last = ThreadsIdle

NextThreads ==
    \E t \in Threads :
        \/ CallGetToken(t)
        \/ CheckMemory(t)
        \/ ReturnCached(t)
        \/ ReadFile(t)
        \/ Adopt(t)
        \/ SendGrant(t)
        \/ ReceiveGrant(t)
        \/ OpenFile(t)
        \/ WriteFile(t)
        \/ CallClearCache(t)
        \/ RemoveFile(t)

SpecThreads == InitThreads /\ [][NextThreads]_vars

(***************************************************************************)
(*                     Claims about the search ladder                      *)
(***************************************************************************)
SearchCall == last.op = "search_records"
DetailCall == last.op = "get_record_details"
Attempts == Len(last.attempts)
Strategy(i) == last.attempts[i].strategy
AttemptRaised(i) == last.attempts[i].raised
AttemptFailed(i) == ~last.attempts[i].raised /\ last.attempts[i].result.error # <<>>
AttemptSucceeded(i) == ~last.attempts[i].raised /\ last.attempts[i].result.error = <<>>
ReturnedValue == last.done /\ ~last.raised

\* C11: a search strategy after the first is attempted only if the strategy
\* attempted before it returned an error and try_alternatives is true; with
\* try_alternatives false only the primary kind search is attempted and the
\* call ends with what that attempt produced, unchanged; when the primary
\* search succeeds no other strategy is attempted, whatever try_alternatives.
Thm_C11_SearchGating ==
    SearchCall =>
        /\ Attempts >= 1 /\ Strategy(1) = 1
        /\ \A i \in 2..Attempts :
              /\ AttemptFailed(i - 1)
              /\ last.args.try_alternatives
              /\ Strategy(i - 1) < Strategy(i)
        /\ (last.done /\ ~last.args.try_alternatives) =>
              /\ Attempts = 1
              /\ last.raised = AttemptRaised(1)
              /\ ~last.raised => last.result = last.attempts[1].result
        /\ AttemptSucceeded(1) =>
              /\ Attempts = 1
              /\ ReturnedValue
              /\ last.result = last.attempts[1].result

\* try_alternatives is false, the primary search failed, and its error came back
Wit_C11_SearchGating ==
    /\ SearchCall
    /\ ReturnedValue
    /\ ~last.args.try_alternatives
    /\ Attempts = 1
    /\ AttemptFailed(1)
    /\ last.result = last.attempts[1].result
    /\ Contains(last.args.kind, WksMarker)

\* C12: the search ladder stops at the first success: a strategy that
\* succeeds is the last one attempted, every applicable strategy before it
\* was attempted and failed, and search_records returns its payload.
Thm_C12_FirstSuccess ==
    SearchCall =>
        \A i \in 1..Attempts :
            AttemptSucceeded(i) =>
                /\ i = Attempts
                /\ ReturnedValue
                /\ last.result = last.attempts[i].result
                /\ \A j \in 1..(i - 1) : AttemptFailed(j)
                /\ \A k \in 1..(Strategy(i) - 1) :
                      (k = 1 \/ Applicable(k, last.args.kind)) =>
                          \E j \in 1..(i - 1) : Strategy(j) = k

\* the kind has the marker, strategy 1 failed, strategy 2 found records
Wit_C12_FirstSuccess ==
    /\ SearchCall
    /\ Contains(last.args.kind, WksMarker)
    /\ Attempts = 2
    /\ AttemptFailed(1)
    /\ Strategy(2) = 2
    /\ AttemptSucceeded(2)
    /\ ReturnedValue
    /\ last.result = Dict(<<>>, <<"recA">>)
    /\ \A i \in DOMAIN last.c.http : last.c.http[i].strategy \in {1, 2}

\* C13: when every search strategy that was attempted failed, search_records
\* returns an error result: strategy 1's error message, word for word, and
\* an empty results list.
Cex_C13_Exhaustion ==
    (SearchCall /\ last.done /\ \A i \in 1..Attempts : ~AttemptSucceeded(i)) =>
        /\ ReturnedValue
        /\ last.result.error # <<>>
        /\ last.result.error = last.attempts[1].result.error
        /\ last.result.results = <<>>

\* the requests strategy k sent, in order
RequestsOf(k) == SelectSeq(last.c.http, LAMBDA e : e.strategy = k)
\* the first request of strategy k was answered 401
Rejected(k) == RequestsOf(k) # <<>> /\ RequestsOf(k)[1].response.status = "401"

\* C14: in every strategy of the search ladder, kind-based or query-based,
\* an attempt whose request is answered 401 invalidates the cached token
\* once (and retries the request once): the call has cleared the token
\* cache once for each strategy whose request was answered 401.
Cex_C14_Protocol401 ==
    SearchCall =>
        last.c.clears = Cardinality({i \in 1..Attempts : Rejected(Strategy(i))})

\* C15: a search call whose first request is answered 401 and whose retry
\* is answered 200 returns the payload of the 200 response, has called
\* clear_cache exactly once, and attempts no fallback strategy.
Thm_C15_SuccessfulRetry ==
    (/\ SearchCall
     /\ Len(last.c.http) >= 2
     /\ last.c.http[1].response.status = "401"
     /\ last.c.http[2].strategy = 1
     /\ last.c.http[2].response.status = "200") =>
        /\ ReturnedValue
        /\ last.result = Dict(<<>>, last.c.http[2].response.results)
        /\ last.c.clears = 1
        /\ Attempts = 1
        /\ Len(last.c.http) = 2

\* the first request got 401, the retry got 200 with a record, fallback allowed
Wit_C15_SuccessfulRetry ==
    /\ SearchCall
    /\ last.args.try_alternatives
    /\ Len(last.c.http) = 2
    /\ last.c.http[1].response.status = "401"
    /\ last.c.http[2].response = Http("200", <<"recA">>, "")
    /\ last.c.http[2].payload = last.c.http[1].payload
    /\ last.result = Dict(<<>>, <<"recA">>)
    /\ last.c.clears = 1

\* C16: every request a search call sends, in any strategy and in a retry
\* after a 401, carries the caller's limit cut down to at most 1000 and the
\* caller's offset unchanged.
Thm_C16_LimitClamp ==
    SearchCall =>
        \A i \in DOMAIN last.c.http :
            /\ last.c.http[i].payload.limit <= 1000
            /\ last.c.http[i].payload.limit =
                   (IF last.args.limit <= 1000 THEN last.args.limit ELSE 1000)
            /\ last.c.http[i].payload.offset = last.args.offset

\* a limit above 1000 and a non-zero offset went through a retry and strategy 4
Wit_C16_LimitClamp ==
    /\ SearchCall
    /\ last.args.limit > 1000
    /\ last.args.offset > 0
    /\ Len(RequestsOf(1)) = 2
    /\ RequestsOf(4) # <<>>
    /\ RequestsOf(4)[1].payload.limit = 1000
    /\ RequestsOf(4)[1].payload.offset = last.args.offset

\* the payload p has no returnedFields entry
NoFieldFilter(p) == ~p.has_fields
\* the payload p has the returnedFields entry l
FieldFilter(p, l) == p.has_fields /\ p.fields = l

\* C17: the kind search resolves returned_fields as follows: unset, no
\* filter (the full data); "basic", [id, kind, data]; "all", no
\* returnedFields at all; another name f, [id, kind, data.f]; a list, the
\* empty one included, that list as returnedFields.
Cex_C17_ReturnedFields ==
    SearchCall =>
        \A i \in DOMAIN last.c.http :
            LET p == last.c.http[i].payload
                rf == last.args.returned_fields
            IN  last.c.http[i].strategy = 1 =>
                    /\ rf.t = "none" => NoFieldFilter(p)
                    /\ (rf.t = "str" /\ rf.str = "basic") => FieldFilter(p, <<"id", "kind", "data">>)
                    /\ (rf.t = "str" /\ rf.str = "all") => NoFieldFilter(p)
                    /\ (rf.t = "str" /\ rf.str \notin {"basic", "all", ""}) =>
                           FieldFilter(p, <<"id", "kind", "data." \o rf.str>>)
                    /\ rf.t = "list" => FieldFilter(p, rf.list)

(***************************************************************************)
(*                     Claims about the detail ladder                      *)
(***************************************************************************)
\* request e is the one the k-th detail strategy makes for the ids asked for
DetailRequest(e, k, ids) ==
    IF k = 1 THEN e.url = <<"api/storage/v2/records/", ids[1]>>
    ELSE IF k = 2 THEN e.url = <<"api/storage/v2/records">> /\ e.payload = [recordIds |-> ids]
    ELSE IF k = 3 THEN e.url = <<"api/storage/v2/query/records">> /\ e.payload = [records |-> ids]
    ELSE e.url = <<"api/search/v2/query">> /\ e.payload.query = <<"id:", ids[1]>>

\* C18: get_record_details attempts direct fetch, batch by recordIds, batch
\* via query/records and search by id in that order; a strategy is attempted
\* only when all before it failed, and none after the first that succeeds.
Thm_C18_DetailOrdering ==
    DetailCall =>
        /\ \A i \in 1..Attempts :
              /\ Strategy(i) = i
              /\ \A j \in 1..(i - 1) : AttemptFailed(j)
              /\ AttemptSucceeded(i) => (i = Attempts /\ ReturnedValue)
        /\ \A j \in DOMAIN last.c.http :
              /\ last.c.http[j].strategy \in 1..Attempts
              /\ DetailRequest(last.c.http[j], last.c.http[j].strategy, last.args)
              /\ \A i \in 1..(j - 1) : last.c.http[i].strategy < last.c.http[j].strategy

\* three endpoints failed with a request each and the search by id found the record
Wit_C18_DetailOrdering ==
    /\ DetailCall
    /\ last.args = <<"recA", "recB">>
    /\ Attempts = 4
    /\ Len(last.c.http) = 4
    /\ AttemptSucceeded(4)
    /\ ReturnedValue
    /\ last.result = Details(<<>>, <<"recA">>)

\* C19: when all four detail strategies fail, get_record_details returns,
\* without raising, the error "Could not retrieve record details" with an
\* empty records list, whatever the errors of the strategies were.
Thm_C19_DetailExhaustion ==
    (DetailCall /\ Attempts = 4 /\ \A i \in 1..4 : ~AttemptSucceeded(i)) =>
        /\ ReturnedValue
        /\ last.result.error = <<"Could not retrieve record details">>
        /\ last.result.records = <<>>

\* four failures with three different errors, the last an empty search result
Wit_C19_DetailExhaustion ==
    /\ DetailCall
    /\ Attempts = 4
    /\ last.attempts[1].result.error = HTTPError(Http("401", <<>>, "unauthorized"))
    /\ last.attempts[2].result.error = ConnectionError(Http("exception", <<>>, "connection refused"))
    /\ last.attempts[3].result.error = HTTPError(Http("500", <<>>, "server error"))
    /\ last.attempts[4].result.error = RecordNotFound
    /\ last.result = Details(CouldNotRetrieve, <<>>)

\* C20: every result of get_record_details without an error contains the
\* requested record; an endpoint answering 200 without the record does not
\* make the call succeed.
Cex_C20_ResultHoldsRecord ==
    (DetailCall /\ ReturnedValue /\ last.result.error = <<>>) =>
        \E i \in DOMAIN last.result.records : last.result.records[i] = last.args[1]

\* C21: when the first three detail strategies failed, get_record_details
\* sends the query id:<record_id> with limit 1 and all fields; a non-empty
\* answer makes the result {records: [first match]}, an empty one makes
\* strategy 4 fail.
Thm_C21_DetailViaSearch ==
    (DetailCall /\ Attempts = 4) =>
        /\ \A j \in 1..3 : AttemptFailed(j)
        /\ \A e \in {RequestsOf(4)[j] : j \in DOMAIN RequestsOf(4)} :
              /\ Len(RequestsOf(4)) = 1
              /\ e.url = <<"api/search/v2/query">>
              /\ e.payload = [query |-> <<"id:", last.args[1]>>, limit |-> 1,
                              returnedFields |-> <<"*">>]
              /\ (e.response.status = "200" /\ e.response.results # <<>>) =>
                     /\ ReturnedValue
                     /\ last.result.error = <<>>
                     /\ last.result.records = <<e.response.results[1]>>
              /\ (e.response.status = "200" /\ e.response.results = <<>>) =>
                     /\ AttemptFailed(4)
                     /\ ReturnedValue
                     /\ last.result.error # <<>>
                     /\ last.result.records = <<>>

\* three strategies failed and the search answered two hits: the first is the result
Wit_C21_DetailViaSearch ==
    /\ DetailCall
    /\ Attempts = 4
    /\ Len(RequestsOf(4)) = 1
    /\ RequestsOf(4)[1].response.results = <<"recB", "recA">>
    /\ last.result.error = <<>>
    /\ last.result.records = <<"recB">>

\* C22: whatever the endpoints and the token manager do, search_records and
\* get_record_details return a value: no completed call ends with an
\* exception.
Cex_C22_NeverRaises ==
    ((SearchCall \/ DetailCall) /\ last.done) => ~last.raised

Requests == last.c.http
Answered401 == {i \in 1..Len(Requests) : Requests[i].response.status = "401"}

\* C26: in a detail retrieval too, a request answered 401 clears the token
\* cache, so the request that follows it does not carry the rejected token.
Cex_C26_InvalidationEverywhere ==
    DetailCall =>
        \A i \in Answered401 :
            /\ last.c.clears >= 1
            /\ i < Len(Requests) => Requests[i + 1].token # Requests[i].token

\* C28: the retry that follows a 401 carries a freshly acquired token: the
\* token manager has sent a grant request between the rejected request and
\* its retry (clear_cache left nothing to reuse, even if the delete failed).
Cex_C28_FreshTokenOnRetry ==
    SearchCall =>
        \A i \in 1..Attempts :
            (Rejected(Strategy(i)) /\ Len(RequestsOf(Strategy(i))) >= 2) =>
                RequestsOf(Strategy(i))[2].grants > RequestsOf(Strategy(i))[1].grants

\* the kind with the domain 'wks' of its second segment made 'ddms-wellbore'
AlternateDomain(kind) == [kind EXCEPT ![3] = "ddms-wellbore"]
HasWksDomain(kind) == \E i \in 1..(Len(kind) - 2) :
                          kind[i] = ":" /\ kind[i + 1] = "wks" /\ kind[i + 2] = ":"

\* C30: strategy 2 is attempted if and only if strategy 1 returned an error,
\* try_alternatives is set and the kind contains ':wks:'; its requests carry
\* the payload of strategy 1 with ':wks:' replaced by ':ddms-wellbore:' in
\* the kind (same limit, offset and returned fields); a 401 is handled as in
\* strategy 1 (clear the cache, send the request once more); a kind without
\* the marker goes from strategy 1 directly to strategy 3.
Thm_C30_AlternateDomain ==
    SearchCall =>
        LET wanted == /\ Attempts >= 1
                      /\ AttemptFailed(1)
                      /\ last.args.try_alternatives
                      /\ HasWksDomain(last.args.kind)
            tried == \E i \in 1..Attempts : Strategy(i) = 2
            first == kind_payload(last.args.kind, last.args.limit, last.args.offset,
                                  last.args.returned_fields)
        IN  /\ tried => (wanted /\ Strategy(2) = 2)
            /\ (wanted /\ (last.done \/ Attempts >= 2)) => tried
            /\ \A i \in 1..Len(RequestsOf(2)) :
                   /\ RequestsOf(2)[i].payload =
                          [first EXCEPT !.kind = AlternateDomain(last.args.kind)]
                   /\ RequestsOf(2)[i].url = SearchUrl
            /\ \A i \in 1..Len(RequestsOf(1)) : RequestsOf(1)[i].payload = first
            /\ Len(RequestsOf(2)) <= 2
            /\ Len(RequestsOf(2)) = 2 => Rejected(2)
            /\ Rejected(2) => last.c.clears = 1 + (IF Rejected(1) THEN 1 ELSE 0)
            /\ (~HasWksDomain(last.args.kind) /\ Attempts >= 2) => Strategy(2) = 3

\* strategy 1 failed, strategy 2 searched the alternate domain, was answered
\* 401 and then 200 on its retry
Wit_C30_AlternateDomain ==
    /\ SearchCall
    /\ last.done
    /\ last.args.kind = KindWks
    /\ Attempts = 2
    /\ AttemptFailed(1)
    /\ Strategy(2) = 2
    /\ Len(RequestsOf(2)) = 2
    /\ Rejected(2)
    /\ RequestsOf(2)[2].response.status = "200"
    /\ RequestsOf(2)[2].payload.kind =
           <<"osdu", ":", "ddms-wellbore", ":", "master-data", "--", "Basin", ":", "*">>
    /\ last.result = Dict(<<>>, RequestsOf(2)[2].response.results)

\* a kind without the marker whose ladder went from strategy 1 to strategy 3
Wit_C30_NoMarker ==
    /\ SearchCall
    /\ last.args.kind = KindNoMarker
    /\ Attempts >= 2
    /\ Strategy(2) = 3

\* the text of the kind after its last '--' and before the next ':'
Dashes(kind) == {i \in 1..Len(kind) : kind[i] = "--"}
LastDash(kind) == CHOOSE i \in Dashes(kind) : \A j \in Dashes(kind) : j <= i
ColonsAfter(kind, m) == {i \in (m + 1)..Len(kind) : kind[i] = ":"}
EntityOf(kind) ==
    IF Dashes(kind) = {} THEN <<>>
    ELSE LET m == LastDash(kind)
             n == IF ColonsAfter(kind, m) = {} THEN Len(kind) + 1
                  ELSE CHOOSE i \in ColonsAfter(kind, m) :
                           \A j \in ColonsAfter(kind, m) : i <= j
         IN  SubSeq(kind, m + 1, n - 1)
Tried(k) == \E i \in 1..Attempts : Strategy(i) = k

\* C31: strategy 3 sends the free-text query *<entity>* and strategy 4 sends
\* kind:*<entity>*, strategy 4 right after strategy 3, where the entity is
\* the text of the kind after its last '--' and before the next ':'; a call
\* that returns with every attempt failed and fallback allowed has tried
\* both when the entity is not empty; a kind without '--' or with an empty
\* entity has neither tried, and such a call returns strategy 1's error.
Thm_C31_WildcardStrategies ==
    SearchCall =>
        LET entity == EntityOf(last.args.kind)
            allFailed == ReturnedValue /\ \A i \in 1..Attempts : AttemptFailed(i)
        IN  /\ \A i \in 1..Len(RequestsOf(3)) :
                   /\ RequestsOf(3)[i].payload.query = <<"*">> \o entity \o <<"*">>
                   /\ RequestsOf(3)[i].payload.kind = <<>>
            /\ \A i \in 1..Len(RequestsOf(4)) :
                   /\ RequestsOf(4)[i].payload.query = <<"kind:", "*">> \o entity \o <<"*">>
                   /\ RequestsOf(4)[i].payload.kind = <<>>
            /\ \A i \in 1..Attempts :
                   Strategy(i) = 4 => (i > 1 /\ Strategy(i - 1) = 3 /\ AttemptFailed(i - 1))
            /\ (Tried(3) \/ Tried(4)) => entity # <<>>
            /\ (allFailed /\ last.args.try_alternatives /\ entity # <<>>) =>
                   (Tried(3) /\ Tried(4))
            /\ (allFailed /\ entity = <<>>) =>
                   /\ last.result = last.attempts[1].result
                   /\ last.result.error # <<>>

\* a kind with two '--': both wildcard strategies were tried with the text
\* after the last one, and the call returned strategy 1's error
Wit_C31_WildcardStrategies ==
    /\ SearchCall
    /\ ReturnedValue
    /\ last.args.kind = KindTwoDashes
    /\ Attempts = 4
    /\ Len(RequestsOf(3)) = 1
    /\ RequestsOf(3)[1].payload.query = <<"*", "WellLog", "*">>
    /\ Len(RequestsOf(4)) = 1
    /\ RequestsOf(4)[1].payload.query = <<"kind:", "*", "WellLog", "*">>
    /\ last.result = last.attempts[1].result

\* a kind whose entity is empty: the ladder ended after strategy 2
Wit_C31_EmptyEntity ==
    /\ SearchCall
    /\ ReturnedValue
    /\ last.args.kind = KindEmptyEntity
    /\ last.args.try_alternatives
    /\ Attempts = 2
    /\ AttemptFailed(2)
    /\ last.result = last.attempts[1].result

\* the grant requests the token manager has sent during the call so far
GrantsSent == Len(last.c.s.requests)
\* the strategy attempted last
Latest == Strategy(Attempts)
\* the search requests stay within 2 for each kind-based strategy and 1 for
\* each query-based one, and the clear_cache calls within one for each
\* kind-based strategy attempted
WithinRequestBounds ==
    /\ Len(Requests) <= 6
    /\ \A k \in {1, 2} : Len(RequestsOf(k)) <= 2
    /\ \A k \in {3, 4} : Len(RequestsOf(k)) <= 1
    /\ last.c.clears <= 2
    /\ last.c.clears <= Cardinality({i \in 1..Attempts : Strategy(i) \in {1, 2}})

\* C33: a search call sends at most 6 search requests (2 for each kind-based
\* strategy, 1 for each query-based one) and clears the token cache at most
\* twice, at most once in an attempt; and after the clear_cache of an
\* attempt the token manager sends at most one grant request in that attempt.
Cex_C33_BoundedWork ==
    SearchCall =>
        /\ WithinRequestBounds
        /\ Rejected(Latest) => GrantsSent - RequestsOf(Latest)[1].grants <= 1

\* the last request of strategy k was answered 200 with an empty result list
EmptyAnswer(k) ==
    /\ RequestsOf(k) # <<>>
    /\ RequestsOf(k)[Len(RequestsOf(k))].response = Http("200", <<>>, "")

\* C34: in both ladders an attempt counts as failed exactly when its result
\* has a non-empty error: an attempt without one ends the call, which
\* returns a result without error; every attempt that was followed by
\* another had an error; a call that returns after a last attempt with an
\* error returns an error.  A search request answered 200 with an empty
\* result list is a success: the call returns the empty result, and when it
\* was the primary search no other strategy is attempted.
Thm_C34_WhatCountsAsFailure ==
    (SearchCall \/ DetailCall) =>
        /\ \A i \in 1..Attempts :
               AttemptSucceeded(i) =>
                   (i = Attempts /\ ReturnedValue /\ last.result.error = <<>>)
        /\ \A i \in 1..(Attempts - 1) : AttemptFailed(i)
        /\ (ReturnedValue /\ Attempts >= 1 /\ AttemptFailed(Attempts)) =>
               last.result.error # <<>>
        /\ SearchCall =>
               /\ \A i \in 1..Attempts :
                      EmptyAnswer(Strategy(i)) =>
                          /\ AttemptSucceeded(i)
                          /\ last.result = Dict(<<>>, <<>>)
               /\ EmptyAnswer(1) => (Attempts = 1 /\ \A k \in 2..4 : RequestsOf(k) = <<>>)

\* fallback was allowed and the primary search was answered 200 with no
\* records: the empty result came back and nothing else was tried
Wit_C34_WhatCountsAsFailure ==
    /\ SearchCall
    /\ last.args.try_alternatives
    /\ last.args.kind = KindWks
    /\ Len(Requests) = 1
    /\ EmptyAnswer(1)
    /\ Attempts = 1
    /\ ReturnedValue
    /\ last.result = Dict(<<>>, <<>>)

(***************************************************************************)
(*                   Claims about concurrent callers                       *)
(***************************************************************************)
Running(t) == last.op = "threads" /\ last.th[t].pc # "idle"
Quiescent == last.op = "threads" /\ \A t \in Threads : ~Running(t)
\* the threads whose grant request is sent and not yet answered
InFlight == {t \in Threads : At(t, "await")}
\* what a thread's read of the cache file gave it
ReadBy(t) == last.th[t].data

\* the get_token call of thread t has returned a value
GetTokenReturned(t) == last.op = "threads" /\ last.th[t].returned

\* C24: callers of get_token exclude each other over read-check-refresh, so
\* at most one grant exchange is in flight at any time (and so the same
\* refresh token is never submitted by two concurrent grant requests).
Cex_C24_SerializedAcquisition ==
    last.op = "threads" => Cardinality(InFlight) <= 1

\* C25: the cache record is replaced atomically: whatever a reader's read of
\* the cache file gives it is a complete record (or no file), never the
\* empty file of a writer that has opened it and not yet written.
Cex_C25_AtomicPersistence ==
    last.op = "threads" => \A t \in Threads : ReadBy(t) # TruncatedFile

\* C27: when no call is under way and both an in-memory token and a persisted
\* record exist, they hold the same access_token and the same expiry.
Cex_C27_MirrorInvariant ==
    (Quiescent /\ Truthy(cached_token) /\ cache_file.kind = "object")
        => /\ cache_file.access_token = cached_token
           /\ cache_file.expiry = token_expiry

\* C32: whenever a get_token call returns without raising, what it returns
\* is a non-empty access token, whatever the other thread does meanwhile.
Cex_C32_NeverAbsentToken ==
    \A t \in Threads : GetTokenReturned(t) => Truthy(last.th[t].ret)
====
